---- MODULE Spec2Model ----
(***************************************************************************)
(* A model of anki's Collection facade (pylib/anki/collection.py): the     *)
(* transaction guard (save/rollback), the single-slot undo record          *)
(* (markReview/_markOp/undo), the schema-modification gate, the change of  *)
(* scheduler version, the deletion log, autosave, the maintenance calls    *)
(* (fixIntegrity/optimize) and the lifecycle (close/reopen/beforeUpload).  *)
(*                                                                         *)
(* The collection is a record `col'; every method of Collection is an      *)
(* operator from a collection record to the collection record it leaves,   *)
(* so that a handler calling another (autosave -> save -> _markOp) is the  *)
(* composition of the operators.  Each action of Next is one call of a     *)
(* public method, or one step of an external collaborator (the clock, the  *)
(* scheduler answering a card, the backend writing to storage).            *)
(***************************************************************************)
EXTENDS Integers, Sequences, FiniteSets, TLC

\* ---------------------------------------------------------------- bounds
MaxTicks == 1       \* how many times the clock advances
MaxStack == 2       \* most snapshots kept in a review undo record
MaxReviews == 1     \* how many cards the scheduler answers
MaxGraves == 3      \* most tombstones in the deletion log
MaxHistory == 2     \* most review-log rows in a collection when it is opened

\* ------------------------------------------------------------ encodings
\* Python's None for an Optional[str] (save's name, undoName's result)
None == "<None>"
\* Python's None for an Optional[int] (save's mod) and for undo's result
NoInt == -1

\* ---------------------------------------------------------------- inputs
Cards == {1, 2, 3}
Notes == {1, 2}
\* cards 1 and 2 are siblings (same note); card 3 belongs to another note
nid(c) == IF c = 3 THEN 2 ELSE 1
\* values callers pass as save's name: absent, empty, two menu labels
Names == {None, "", "Edit", "Add"}
\* values callers pass as save's mod: absent, or an explicit stamp
Mods == {NoInt, 0}

QUEUE_TYPE_SIBLING_BURIED == -2
QUEUE_TYPE_LRN == 1
QUEUE_TYPE_DAY_LEARN_RELEARN == 3
QUEUE_TYPE_PREVIEW == 4

VARIABLES
    col,    \* the Collection object, its DBProxy and the storage behind it
    now,    \* the wall clock, in seconds
    answers,\* how many cards the scheduler has answered
    marks,  \* history: the markReview calls not undone since the last
            \* save with a (non-empty) label, oldest first, each with the
            \* snapshot taken, whether the note had the leech tag then
            \* and, where a claim needs it, the queue the cards were in
    op,     \* the last call made: method name and arguments
    ret,    \* what the last call returned
    err     \* the exception the last call raised, "" when it returned

vars == <<col, now, answers, marks, op, ret, err>>

\* --------------------------------------------------------------- storage
\* the rows of the database as the open connection sees them
InitRows ==
    [ mod    |-> 0,
      scm    |-> 0,
      ls     |-> 0,
      cards  |-> [c \in Cards |-> [type |-> 0, queue |-> 0]],
      leech  |-> [n \in Notes |-> FALSE],
      revlog |-> <<>>,
      usn      |-> 0,
      graves   |-> <<>>,
      schedVer |-> 1,      \* conf["schedVer"]
      shape    |-> 1 ]     \* the scheduler version the card rows are laid out for

\* what a call has done so far; unpaired counts the begins issued inside a
\* transaction and the commits and rollbacks issued outside one
NoCalls ==
    [commit |-> 0, rollback |-> 0, begin |-> 0, hook |-> 0, stats |-> <<>>,
     moves |-> <<>>, raised |-> "", beginFailed |-> 0, report |-> "",
     unpaired |-> 0]

\* no card has been written back by the call
NoCard == [id |-> 0, nid |-> 0, type |-> 0, queue |-> 0]

\* Collection.clearUndo: self._undo = None
NoUndo == [tag |-> 0, name |-> None, cards |-> <<>>, wasLeech |-> FALSE]

clearUndo(s) == [s EXCEPT !.undo = NoUndo]

\* intTime(scale): int(time.time() * scale)
intTime(scale) == now * scale

\* DBProxy.begin: remember col.mod at the start of the transaction
db_begin(s) ==
    [s EXCEPT !.inTrx = TRUE,
              !.last_begin_at = s.cur.mod,
              !.calls.begin = @ + 1,
              !.calls.unpaired = IF s.inTrx THEN @ + 1 ELSE @]

\* DBProxy.commit: what the connection sees becomes the committed state
db_commit(s) ==
    [s EXCEPT !.inTrx = FALSE,
              !.disk = s.cur,
              !.calls.commit = @ + 1,
              !.calls.unpaired = IF s.inTrx THEN @ ELSE @ + 1]

\* DBProxy.rollback: the connection sees the committed state again
db_rollback(s) ==
    [s EXCEPT !.inTrx = FALSE,
              !.cur = s.disk,
              !.calls.rollback = @ + 1,
              !.calls.unpaired = IF s.inTrx THEN @ ELSE @ + 1]

\* DBProxy.execute of an insert/update/delete: marks the proxy modified
db_written(s) == [s EXCEPT !.dbmod = TRUE]

\* Collection.mod setter: update col set mod=?
set_mod(s, val) == db_written([s EXCEPT !.cur.mod = val])

\* Collection.scm setter: update col set scm=?
set_scm(s, val) == db_written([s EXCEPT !.cur.scm = val])

\* Collection.ls setter: update col set ls=?
set_ls(s, val) == db_written([s EXCEPT !.cur.ls = val])

\* Collection._usn setter: update col set usn=?
set_usn(s, val) == db_written([s EXCEPT !.cur.usn = val])

\* Collection.modified_after_begin
modified_after_begin(s) == s.last_begin_at /= s.cur.mod

\* mutant: the rollback is not followed by a begin
rollback_no_begin(s) == db_rollback(s)

\* Collection.rollback
rollback(s) == db_begin(db_rollback(s))

\* ------------------------------------------------------------------ undo
\* Collection.undoName
undoName(s) == IF s.undo.tag = 0 THEN None ELSE s.undo.name

\* mutant: a save without a name clears whatever record there is
markOp_clears_reviews(s, name) ==
    IF name /= None /\ name /= ""
    THEN [s EXCEPT !.undo = [tag |-> 2, name |-> name,
                             cards |-> <<>>, wasLeech |-> FALSE]]
    ELSE clearUndo(s)

\* mutant: a named save does not replace a review record
markOp_keeps_reviews(s, name) ==
    IF name /= None /\ name /= "" /\ s.undo.tag /= 1
    THEN [s EXCEPT !.undo = [tag |-> 2, name |-> name,
                             cards |-> <<>>, wasLeech |-> FALSE]]
    ELSE IF s.undo.tag = 2 THEN clearUndo(s) ELSE s

\* mutant: a save without a name leaves a checkpoint pending
markOp_keeps_checkpoint(s, name) ==
    IF name /= None /\ name /= ""
    THEN [s EXCEPT !.undo = [tag |-> 2, name |-> name,
                             cards |-> <<>>, wasLeech |-> FALSE]]
    ELSE s

\* Collection._markOp; `if name:' is false for None and for ""
markOp(s, name) ==
    IF name /= None /\ name /= ""
    THEN [s EXCEPT !.undo = [tag |-> 2, name |-> name,
                             cards |-> <<>>, wasLeech |-> FALSE]]
    ELSE IF s.undo.tag = 2 THEN clearUndo(s) ELSE s

\* copy.copy(card): the card object's fields when markReview is called
Snapshot(s, c) ==
    [id |-> c, nid |-> nid(c),
     type |-> s.cur.cards[c].type, queue |-> s.cur.cards[c].queue]

\* mutant: wasLeech is kept from the record being extended
markReview_keeps_wasLeech(s, c) ==
    LET old == IF s.undo.tag = 1 THEN s.undo.cards ELSE <<>>
        wasLeech == IF s.undo.tag = 1 THEN s.undo.wasLeech
                    ELSE s.cur.leech[nid(c)]
    IN  [s EXCEPT !.undo = [tag |-> 1, name |-> "Review",
                            cards |-> old \o <<Snapshot(s, c)>>,
                            wasLeech |-> wasLeech]]

\* mutant: a checkpoint is not dropped by a review
markReview_keeps_checkpoint(s, c) ==
    IF s.undo.tag = 2 THEN s
    ELSE LET old == IF s.undo.tag = 1 THEN s.undo.cards ELSE <<>>
             wasLeech == s.cur.leech[nid(c)]
         IN  [s EXCEPT !.undo = [tag |-> 1, name |-> "Review",
                                 cards |-> old \o <<Snapshot(s, c)>>,
                                 wasLeech |-> wasLeech]]

\* Collection.markReview
markReview(s, c) ==
    LET old == IF s.undo.tag = 1 THEN s.undo.cards ELSE <<>>
        wasLeech == s.cur.leech[nid(c)]
    IN  [s EXCEPT !.undo = [tag |-> 1, name |-> "Review",
                            cards |-> old \o <<Snapshot(s, c)>>,
                            wasLeech |-> wasLeech]]

\* sched._cardConf(c): card 2 sits in a filtered deck that does not reschedule
cardConf(c) == [dyn |-> (c = 2), resched |-> FALSE]

previewing(c) == cardConf(c).dyn /\ ~cardConf(c).resched

\* mutant: the oldest row of the card is taken
LastRev_first(log, id) ==
    LET hits == {i \in 1..Len(log) : log[i] = id}
    IN  IF hits = {} THEN 0 ELSE CHOOSE i \in hits : \A j \in hits : i <= j

\* the index of the last row of the review log written for card id, 0 if none
LastRev(log, id) ==
    LET hits == {i \in 1..Len(log) : log[i] = id}
    IN  IF hits = {} THEN 0 ELSE CHOOSE i \in hits : \A j \in hits : j <= i

\* delete from revlog where id = ?
DelRev(log, i) ==
    [j \in 1..(Len(log) - 1) |-> IF j < i THEN log[j] ELSE log[j + 1]]

\* ("new", "lrn", "rev")[n], with Python's negative indexing
Bucket(queue) ==
    LET n == IF queue \in {QUEUE_TYPE_DAY_LEARN_RELEARN, QUEUE_TYPE_PREVIEW}
             THEN QUEUE_TYPE_LRN ELSE queue
        names == <<"new", "lrn", "rev">>
    IN  names[IF n < 0 THEN n + 4 ELSE n + 1]

\* sched._updateStats(card, type, cnt)
updateStats(s, type, cnt) == [s EXCEPT !.calls.stats = Append(@, <<type, cnt>>)]

\* update cards set queue=type where queue=-2 and nid=?
restoreSiblings(s, n) ==
    db_written([s EXCEPT !.cur.cards =
        [d \in Cards |->
            IF s.cur.cards[d].queue = QUEUE_TYPE_SIBLING_BURIED /\ nid(d) = n
            THEN [s.cur.cards[d] EXCEPT !.queue = s.cur.cards[d].type]
            ELSE s.cur.cards[d]]])

\* mutant: data.pop(0), the oldest snapshot is taken first
undoReview_fifo(s) ==
    LET data == s.undo.cards
        wasLeech == s.undo.wasLeech
        c == data[1]
        rest == SubSeq(data, 2, Len(data))
        s1 == IF rest = <<>> THEN clearUndo(s)
              ELSE [s EXCEPT !.undo.cards = rest]
        \* remove leech tag if it didn't have it before
        s2 == IF ~wasLeech /\ s1.cur.leech[c.nid]
              THEN [s1 EXCEPT !.cur.leech[c.nid] = FALSE]
              ELSE s1
        \* write old data
        s3 == [s2 EXCEPT !.cur.cards[c.id] = [type |-> c.type, queue |-> c.queue],
                         !.flushed = c]
        \* and delete revlog entry if not previewing
        last == LastRev(s3.cur.revlog, c.id)
        s4 == IF ~previewing(c.id)
              THEN db_written(IF last = 0 THEN s3
                              ELSE [s3 EXCEPT !.cur.revlog = DelRev(@, last)])
              ELSE s3
        \* restore any siblings
        s5 == restoreSiblings(s4, c.nid)
        \* and finally, update daily counts
        s6 == updateStats(s5, Bucket(c.queue), -1)
    IN  [s6 EXCEPT !.reps = @ - 1]

\* Collection._undoReview; c.note() is read as the note the storage holds
\* when undo runs (Card and Note are defined outside collection.py: the
\* tag is the one a fresh load of the note shows)
undoReview(s) ==
    LET data == s.undo.cards
        wasLeech == s.undo.wasLeech
        c == data[Len(data)]
        rest == SubSeq(data, 1, Len(data) - 1)
        s1 == IF rest = <<>> THEN clearUndo(s)
              ELSE [s EXCEPT !.undo.cards = rest]
        \* remove leech tag if it didn't have it before
        s2 == IF ~wasLeech /\ s1.cur.leech[c.nid]
              THEN [s1 EXCEPT !.cur.leech[c.nid] = FALSE]
              ELSE s1
        \* write old data
        s3 == [s2 EXCEPT !.cur.cards[c.id] = [type |-> c.type, queue |-> c.queue],
                         !.flushed = c]
        \* and delete revlog entry if not previewing
        last == LastRev(s3.cur.revlog, c.id)
        s4 == IF ~previewing(c.id)
              THEN db_written(IF last = 0 THEN s3
                              ELSE [s3 EXCEPT !.cur.revlog = DelRev(@, last)])
              ELSE s3
        \* restore any siblings
        s5 == restoreSiblings(s4, c.nid)
        \* and finally, update daily counts
        s6 == updateStats(s5, Bucket(c.queue), -1)
    IN  [s6 EXCEPT !.reps = @ - 1]

\* Collection._undoOp
undoOp(s) == clearUndo(rollback(s))

\* mutant: an empty record is taken for a checkpoint
undoRaises_never(s) == FALSE

\* Collection.undo: subscripting self._undo raises when it is None
undoRaises(s) == s.undo.tag = 0

\* Collection.undo, when it does not raise
undo(s) == IF s.undo.tag = 1 THEN undoReview(s) ELSE undoOp(s)

\* what Collection.undo returns: _undoReview's c.id (c is the card it
\* popped and wrote back), or None from _undoOp
undoResult(s) == IF s.undo.tag = 1 THEN undoReview(s).flushed.id ELSE NoInt

\* mutant: a schema stamped at the time of the last sync counts as changed
schemaChanged_since_or_at(s) == s.cur.scm >= s.cur.ls

\* Collection.schemaChanged
schemaChanged(s) == s.cur.scm > s.cur.ls

\* ------------------------------------------------------------------ save
\* mutant: `mod or intTime(1000)', which takes mod=0 for no mod
save_falsy_mod(s, name, mod, trx) ==
    LET dirty == s.dbmod \/ modified_after_begin(s)
        s1 == IF dirty
              THEN LET a == set_mod(s, IF mod \in {NoInt, 0} THEN intTime(1000)
                                       ELSE mod)
                       b == db_commit(a)
                       c == [b EXCEPT !.dbmod = FALSE]
                   IN  IF trx THEN db_begin(c) ELSE c
              ELSE IF ~trx THEN db_rollback(s) ELSE s
        s2 == markOp(s1, name)
    IN  [s2 EXCEPT !.lastSave = now]

\* mutant: nothing is rolled back when there was nothing to commit
save_no_rollback(s, name, mod, trx) ==
    LET dirty == s.dbmod \/ modified_after_begin(s)
        s1 == IF dirty
              THEN LET a == set_mod(s, IF mod = NoInt THEN intTime(1000) ELSE mod)
                       b == db_commit(a)
                       c == [b EXCEPT !.dbmod = FALSE]
                   IN  IF trx THEN db_begin(c) ELSE c
              ELSE s
        s2 == markOp(s1, name)
    IN  [s2 EXCEPT !.lastSave = now]

\* Collection.save
save(s, name, mod, trx) ==
    LET dirty == s.dbmod \/ modified_after_begin(s)
        s1 == IF dirty
              THEN LET a == set_mod(s, IF mod = NoInt THEN intTime(1000) ELSE mod)
                       b == db_commit(a)
                       c == [b EXCEPT !.dbmod = FALSE]
                   IN  IF trx THEN db_begin(c) ELSE c
              ELSE IF ~trx THEN db_rollback(s) ELSE s
        s2 == markOp(s1, name)
    IN  [s2 EXCEPT !.lastSave = now]

\* Collection.modSchema, past the confirmation gate
modSchema(s) == save(set_scm(s, intTime(1000)), None, NoInt, TRUE)

\* mutant: five minutes exactly are enough
autosaveDue_at_300(s) == now - s.lastSave >= 300

\* Collection.autosave's test: more than 5 minutes since the last save
autosaveDue(s) == now - s.lastSave > 300

\* ------------------------------------------------------------- scheduler
\* the call raises exception e
Raise(s, e) == [s EXCEPT !.calls.raised = e]

\* hooks.schema_will_change(proceed=True) is consulted
schema_will_change(s) == [s EXCEPT !.calls.hook = @ + 1]

\* mutant: the schema is stamped before the hook is consulted
modSchemaChecked_stamps_first(s, check, proceed) ==
    IF ~schemaChanged(s)
    THEN IF check /\ ~proceed
         THEN Raise(schema_will_change(set_scm(s, intTime(1000))),
                    "abortSchemaMod")
         ELSE modSchema(IF check THEN schema_will_change(s) ELSE s)
    ELSE modSchema(s)

\* Collection.modSchema(check); proceed is what the hook answers if asked
modSchemaChecked(s, check, proceed) ==
    IF ~schemaChanged(s)
    THEN IF check /\ ~proceed
         THEN Raise(schema_will_change(s), "abortSchemaMod")
         ELSE modSchema(IF check THEN schema_will_change(s) ELSE s)
    ELSE modSchema(s)

supportedSchedulerVersions == {1, 2}

\* mutant: every version is taken for a supported one
supported_any(ver) == TRUE

\* ver in self.supportedSchedulerVersions
supported(ver) == ver \in supportedSchedulerVersions

\* Collection.schedVer: conf.get("schedVer", 1), or an exception
schedVer(s) == s.cur.schedVer

schedVerRaises(s) == ~supported(s.cur.schedVer)

\* Collection._loadScheduler: self.sched becomes a new scheduler object,
\* whose counter reps starts at 0
loadScheduler(s) ==
    IF schedVerRaises(s) THEN Raise(s, "Unsupported scheduler version")
    ELSE IF schedVer(s) = 1 THEN [s EXCEPT !.sched = 1, !.reps = 0]
    ELSE IF schedVer(s) = 2 THEN [s EXCEPT !.sched = 2, !.reps = 0]
    ELSE s

\* what a migration routine finds when it is invoked
Moving(s, ver) ==
    [to |-> ver, undo |-> s.undo.tag, scm |-> s.cur.scm,
     saved |-> (s.disk.scm = s.cur.scm), schedVer |-> s.cur.schedVer,
     sched |-> s.sched, hook |-> s.calls.hook, commit |-> s.calls.commit]

\* V2Scheduler.moveToV1: the card rows are rewritten for the v1 scheduler,
\* unless the routine fails
moveToV1(s, fails) ==
    LET s1 == [s EXCEPT !.calls.moves = Append(@, Moving(s, 1))]
    IN  IF fails THEN Raise(s1, "MigrationError")
        ELSE db_written([s1 EXCEPT !.cur.shape = 1])

\* V2Scheduler.moveToV2
moveToV2(s, fails) ==
    LET s1 == [s EXCEPT !.calls.moves = Append(@, Moving(s, 2))]
    IN  IF fails THEN Raise(s1, "MigrationError")
        ELSE db_written([s1 EXCEPT !.cur.shape = 2])

\* self.conf["schedVer"] = ver: the backend writes the configuration and
\* marks the collection modified
set_schedVer(s, ver) ==
    [s EXCEPT !.cur.schedVer = ver, !.cur.mod = intTime(1000)]

\* Collection.set_config("schedVer", val): setMod() is a no-op, then the
\* configuration is written; nothing else follows (no schema gate, no
\* clearUndo, no _loadScheduler)
set_config(s, val) == set_schedVer(s, val)

\* Collection.remove_config("schedVer"): the version reads as 1 again
remove_config(s) == set_schedVer(s, 1)

\* mutant: the target is not compared with the current version
sameVer_never(s, ver) == FALSE

\* ver == self.schedVer()
sameVer(s, ver) == ver = schedVer(s)

\* mutant: the migration routine of the version being left is invoked
changeSchedulerVer_wrong_way(s, ver, proceed, fails) ==
    IF schedVerRaises(s) THEN Raise(s, "Unsupported scheduler version")
    ELSE IF sameVer(s, ver) THEN s
    ELSE IF ~supported(ver) THEN Raise(s, "Unsupported scheduler version")
    ELSE LET s1 == modSchemaChecked(s, TRUE, proceed)
             s2 == clearUndo(s1)
             s3 == IF ver = 1 THEN moveToV2(s2, fails) ELSE moveToV1(s2, fails)
             s4 == set_schedVer(s3, ver)
         IN  IF s1.calls.raised /= "" THEN s1
             ELSE IF s3.calls.raised /= "" THEN s3
             ELSE loadScheduler(s4)

\* mutant: the undo record is cleared once the migration is done
changeSchedulerVer_clears_late(s, ver, proceed, fails) ==
    IF schedVerRaises(s) THEN Raise(s, "Unsupported scheduler version")
    ELSE IF sameVer(s, ver) THEN s
    ELSE IF ~supported(ver) THEN Raise(s, "Unsupported scheduler version")
    ELSE LET s1 == modSchemaChecked(s, TRUE, proceed)
             s3 == IF ver = 1 THEN moveToV1(s1, fails) ELSE moveToV2(s1, fails)
             s4 == set_schedVer(clearUndo(s3), ver)
         IN  IF s1.calls.raised /= "" THEN s1
             ELSE IF s3.calls.raised /= "" THEN s3
             ELSE loadScheduler(s4)

\* Collection.changeSchedulerVer(ver); proceed is the hook's answer and
\* fails whether the migration routine raises
changeSchedulerVer(s, ver, proceed, fails) ==
    IF schedVerRaises(s) THEN Raise(s, "Unsupported scheduler version")
    ELSE IF sameVer(s, ver) THEN s
    ELSE IF ~supported(ver) THEN Raise(s, "Unsupported scheduler version")
    ELSE LET s1 == modSchemaChecked(s, TRUE, proceed)
             s2 == clearUndo(s1)
             s3 == IF ver = 1 THEN moveToV1(s2, fails) ELSE moveToV2(s2, fails)
             \* setMod() is a no-op
             s4 == set_schedVer(s3, ver)
         IN  IF s1.calls.raised /= "" THEN s1
             ELSE IF s3.calls.raised /= "" THEN s3
             ELSE loadScheduler(s4)

\* ----------------------------------------------------------- maintenance
\* self.db.begin() on a database that may be too damaged to begin
db_begin_or_fail(s, fails) ==
    IF fails THEN [s EXCEPT !.calls.beginFailed = @ + 1] ELSE db_begin(s)

\* what the caller of fixIntegrity gets for each outcome of
\* backend.check_database(): the text and ok, or the exception
CheckOutcomes == {"clean", "problems", "DBError", "Exception"}

\* Collection.fixIntegrity
fixIntegrity(s, outcome, beginFails) ==
    LET s1 == save(s, None, NoInt, FALSE)
        \* try: check_database; except DBError: the error is the report
        s2 == IF outcome = "clean" THEN [s1 EXCEPT !.calls.report = "rebuilt"]
              ELSE IF outcome = "problems"
              THEN [s1 EXCEPT !.calls.report = "problems, rebuilt"]
              ELSE IF outcome = "DBError"
              THEN [s1 EXCEPT !.calls.report = "DBError"]
              ELSE Raise(s1, "Exception")
        \* finally: try: self.db.begin(); except: pass
    IN  db_begin_or_fail(s2, beginFails)

\* the ok of the tuple fixIntegrity returns
fixIntegrityOk(outcome) == outcome = "clean"

\* Collection.optimize; fails is whether vacuum or analyze raises
optimize(s, fails, beginFails) ==
    LET s1 == save(s, None, NoInt, FALSE)
        s2 == db_begin_or_fail(s1, beginFails)
    IN  IF fails THEN Raise(s1, "DBError")
        ELSE IF beginFails THEN Raise(s2, "DBError")
        ELSE s2

\* ------------------------------------------------------------ lifecycle
\* Collection.close(save, downgrade)
close(s, saving) ==
    IF s.open
    THEN LET s1 == IF saving THEN save(s, None, NoInt, FALSE)
                   ELSE db_rollback(s)
         IN  [s1 EXCEPT !.open = FALSE]
    ELSE s

\* Collection.close_for_full_sync
close_for_full_sync(s) ==
    IF s.open
    THEN [save(s, None, NoInt, FALSE) EXCEPT !.open = FALSE]
    ELSE s

\* Collection.reopen, when self.db is None: self.db is a new DBProxy, not
\* yet modified, and a transaction is begun on it
reopen(s) == db_begin([s EXCEPT !.open = TRUE, !.dbmod = FALSE])

\* Collection.beforeUpload
beforeUpload(s) == close(save(s, None, NoInt, FALSE), FALSE)

\* --------------------------------------------------------- deletion log
\* mutant: the stored usn is used whatever the mode
usn_stored(s) == s.cur.usn

\* Collection.usn
usn(s) == IF s.server THEN s.cur.usn ELSE -1

\* Collection._logRem: insert into graves values (usn, ?, type), once for
\* each element of ids
logRem(s, ids, type) ==
    db_written([s EXCEPT !.cur.graves =
        @ \o [i \in 1..Len(ids) |->
                 [usn |-> usn(s), oid |-> ids[i], type |-> type]]])

\* ------------------------------------------------------------ card flags
\* Collection.setUserFlag: update cards set flags=..., usn=?, mod=? where
\* id in cids, through db.execute; the flags of a card are not part of the
\* rows kept here, the proxy is marked modified; `assert 0 <= flag <= 7'
setUserFlag(s, flag, cids) ==
    IF 0 <= flag /\ flag <= 7 THEN db_written(s)
    ELSE Raise(s, "AssertionError")

\* --------------------------------------------------------------- actions
Call(n, c, name, mod, trx) ==
    [name |-> n, card |-> c, label |-> name, mod |-> mod, trx |-> trx]

\* the collection at the start of a call: the per-call probes are reset
Enter == [col EXCEPT !.calls = NoCalls, !.flushed = NoCard]

\* Collection(path, server=...) once __init__ has returned
NewCollection(server) ==
    [ undo |-> NoUndo,
      cur |-> InitRows,
      disk |-> InitRows,
      inTrx |-> TRUE,
      dbmod |-> FALSE,
      last_begin_at |-> 0,
      lastSave |-> 0,
      reps |-> 0,
      server |-> server,
      open |-> TRUE,       \* self.db is not None
      sched |-> 1,
      calls |-> NoCalls,
      flushed |-> NoCard ]

Init ==
    /\ col = NewCollection(FALSE)
    /\ now = 0
    /\ answers = 0
    /\ marks = <<>>
    /\ op = Call("init", 0, None, NoInt, TRUE)
    /\ ret = NoInt
    /\ err = ""

\* time passes
Tick ==
    /\ now < 301 * MaxTicks
    /\ now' = now + 301
    /\ col' = Enter
    /\ op' = Call("tick", 0, None, NoInt, TRUE)
    /\ ret' = NoInt
    /\ err' = ""
    /\ UNCHANGED <<answers, marks>>

\* col.save(name, mod, trx), called inside the open transaction
SaveWith(names, mods, trxs) ==
    \E name \in names, mod \in mods, trx \in trxs :
        /\ col.inTrx
        /\ col' = save(Enter, name, mod, trx)
        /\ op' = Call("save", 0, name, mod, trx)
        /\ ret' = NoInt
        /\ err' = ""
        /\ marks' = IF name \in {None, ""} THEN marks ELSE <<>>
        /\ UNCHANGED <<now, answers>>

\* db.begin() after a save(trx=False), as optimize and fixIntegrity do
Begin ==
    /\ col.open
    /\ ~col.inTrx
    /\ col' = db_begin(Enter)
    /\ op' = Call("begin", 0, None, NoInt, TRUE)
    /\ ret' = NoInt
    /\ err' = ""
    /\ UNCHANGED <<now, answers, marks>>

\* col.autosave()
Autosave ==
    /\ col.inTrx
    /\ col' = IF autosaveDue(Enter) THEN save(Enter, None, NoInt, TRUE) ELSE Enter
    /\ op' = Call("autosave", 0, None, NoInt, TRUE)
    /\ ret' = IF autosaveDue(Enter) THEN 1 ELSE NoInt
    /\ err' = ""
    /\ UNCHANGED <<now, answers, marks>>

\* col.modSchema(check); proceed is the answer of hooks.schema_will_change
ModSchema ==
    \E check \in BOOLEAN, proceed \in BOOLEAN :
        LET asked == ~schemaChanged(Enter) /\ check
            s0 == IF asked THEN [Enter EXCEPT !.calls.hook = @ + 1] ELSE Enter
            abort == asked /\ ~proceed
        IN  /\ col.inTrx
            /\ col' = IF abort THEN s0 ELSE modSchema(s0)
            /\ op' = Call("modSchema", 0, None, NoInt, check)
            /\ ret' = NoInt
            /\ err' = IF abort THEN "abortSchemaMod" ELSE ""
            /\ UNCHANGED <<now, answers, marks>>

\* col.markReview(card); the history keeps the queue of the noted cards
MarkReviewNoting(cards, noted) ==
    \E c \in cards :
        /\ col.inTrx
        /\ Len(col.undo.cards) < MaxStack
        /\ col' = markReview(Enter, c)
        /\ op' = Call("markReview", c, None, NoInt, TRUE)
        /\ ret' = NoInt
        /\ err' = ""
        /\ marks' = Append(marks, [snap |-> Snapshot(col, c),
                                   hadLeech |-> col.cur.leech[nid(c)],
                                   queues |-> [d \in noted |->
                                                 col.cur.cards[d].queue]])
        /\ UNCHANGED <<now, answers>>

MarkReviewOf(cards) == MarkReviewNoting(cards, {})

\* col.undo(): `self._undo[0]' raises TypeError when self._undo is None;
\* sched.reps, which a review undo decrements, is kept above -MaxStack
Undo ==
    /\ col.inTrx
    /\ col.undo.tag = 1 => col.reps > -MaxStack
    /\ col' = IF undoRaises(Enter) THEN Enter ELSE undo(Enter)
    /\ op' = Call("undo", 0, None, NoInt, TRUE)
    /\ ret' = IF undoRaises(Enter) THEN NoInt ELSE undoResult(Enter)
    /\ err' = IF undoRaises(Enter) THEN "TypeError" ELSE ""
    /\ marks' = IF marks = <<>> THEN marks ELSE SubSeq(marks, 1, Len(marks) - 1)
    /\ UNCHANGED <<now, answers>>

\* the scheduler answers card c (after its markReview): the card moves on,
\* a review-log row is written unless previewing, the note may become a
\* leech and the card's siblings may be buried
AnswerWith(cards, leeches, buries) ==
    \E c \in cards, leech \in leeches, bury \in buries :
        LET row == col.cur.cards[c]
            next == 2
        IN  /\ col.inTrx
            /\ row.queue >= 0
            /\ answers < MaxReviews
            /\ answers' = answers + 1
            /\ col' = [Enter EXCEPT
                  !.cur.cards = [d \in Cards |->
                      IF d = c THEN [type |-> next, queue |-> next]
                      ELSE IF bury /\ nid(d) = nid(c)
                      THEN [@[d] EXCEPT !.queue = QUEUE_TYPE_SIBLING_BURIED]
                      ELSE @[d]],
                  !.cur.leech[nid(c)] = @ \/ leech,
                  !.cur.revlog = IF previewing(c) THEN @ ELSE Append(@, c),
                  !.dbmod = TRUE,
                  !.reps = @ + 1]
            /\ op' = Call("answer", c, None, NoInt, TRUE)
            /\ ret' = NoInt
            /\ err' = ""
            /\ UNCHANGED <<now, marks>>

\* the backend changes the collection and stamps col.mod itself
BackendWrite ==
    /\ col.inTrx
    /\ col.cur.mod /= intTime(1000)
    /\ col' = [Enter EXCEPT !.cur.mod = intTime(1000)]
    /\ op' = Call("backend", 0, None, NoInt, TRUE)
    /\ ret' = NoInt
    /\ err' = ""
    /\ UNCHANGED <<now, answers, marks>>

\* col.changeSchedulerVer(ver)
ChangeSchedulerVerWith(vers, proceeds, failures) ==
    \E ver \in vers, proceed \in proceeds, fails \in failures :
        /\ col.inTrx
        /\ col' = changeSchedulerVer(Enter, ver, proceed, fails)
        /\ op' = [name |-> "changeSchedulerVer", ver |-> ver,
                  proceed |-> proceed, fails |-> fails]
        /\ ret' = NoInt
        /\ err' = col'.calls.raised
        /\ marks' = IF col'.undo.tag = 1 THEN marks ELSE <<>>
        /\ UNCHANGED <<now, answers>>

\* a sync has completed: the syncer records its time in col.ls
SetLs ==
    /\ col.inTrx
    /\ col.cur.ls /= intTime(1000)
    /\ col' = set_ls(Enter, intTime(1000))
    /\ op' = Call("ls", 0, None, NoInt, TRUE)
    /\ ret' = NoInt
    /\ err' = ""
    /\ UNCHANGED <<now, answers, marks>>

\* col._logRem(ids, type), as remNotes, remCards and the deck manager call it
LogRemWith(idss, types) ==
    \E ids \in idss, type \in types :
        /\ col.inTrx
        /\ Len(col.cur.graves) + Len(ids) <= MaxGraves
        /\ col' = logRem(Enter, ids, type)
        /\ op' = [name |-> "logRem", ids |-> ids, type |-> type]
        /\ ret' = NoInt
        /\ err' = ""
        /\ UNCHANGED <<now, answers, marks>>

\* the syncer stores a new sync-sequence-number: col._usn = val
SetUsnWith(vals) ==
    \E val \in vals :
        /\ col.inTrx
        /\ col.cur.usn /= val
        /\ col' = set_usn(Enter, val)
        /\ op' = Call("usn", 0, None, val, TRUE)
        /\ ret' = NoInt
        /\ err' = ""
        /\ UNCHANGED <<now, answers, marks>>

\* time passes, by one of the given numbers of seconds
ElapseWith(steps) ==
    \E d \in steps :
        /\ now + d <= 451 * MaxTicks
        /\ now' = now + d
        /\ col' = Enter
        /\ op' = Call("tick", 0, None, NoInt, TRUE)
        /\ ret' = NoInt
        /\ err' = ""
        /\ UNCHANGED <<answers, marks>>

\* col.fixIntegrity()
FixIntegrity ==
    \E outcome \in CheckOutcomes, beginFails \in BOOLEAN :
        /\ col.inTrx
        /\ col' = fixIntegrity(Enter, outcome, beginFails)
        /\ op' = [name |-> "fixIntegrity", outcome |-> outcome,
                  beginFails |-> beginFails]
        /\ ret' = IF col'.calls.raised /= "" THEN NoInt
                  ELSE IF fixIntegrityOk(outcome) THEN 1 ELSE 0
        /\ err' = col'.calls.raised
        /\ UNCHANGED <<now, answers, marks>>

\* col.optimize()
Optimize ==
    \E fails \in BOOLEAN, beginFails \in BOOLEAN :
        /\ col.inTrx
        /\ col' = optimize(Enter, fails, beginFails)
        /\ op' = [name |-> "optimize", fails |-> fails,
                  beginFails |-> beginFails]
        /\ ret' = NoInt
        /\ err' = col'.calls.raised
        /\ UNCHANGED <<now, answers, marks>>

\* col.close(save=...)
Close ==
    \E saving \in BOOLEAN :
        /\ col' = close(Enter, saving)
        /\ op' = Call("close", 0, None, NoInt, saving)
        /\ ret' = NoInt
        /\ err' = ""
        /\ UNCHANGED <<now, answers, marks>>

\* col.close_for_full_sync()
CloseForFullSync ==
    /\ col' = close_for_full_sync(Enter)
    /\ op' = Call("close_for_full_sync", 0, None, NoInt, TRUE)
    /\ ret' = NoInt
    /\ err' = ""
    /\ UNCHANGED <<now, answers, marks>>

\* col.reopen(); `assert not self.db'
Reopen ==
    /\ ~col.open
    /\ col' = reopen(Enter)
    /\ op' = Call("reopen", 0, None, NoInt, TRUE)
    /\ ret' = NoInt
    /\ err' = ""
    /\ UNCHANGED <<now, answers, marks>>

\* col.beforeUpload()
BeforeUpload ==
    /\ col.open
    /\ col.inTrx
    /\ col' = beforeUpload(Enter)
    /\ op' = Call("beforeUpload", 0, None, NoInt, TRUE)
    /\ ret' = NoInt
    /\ err' = ""
    /\ UNCHANGED <<now, answers, marks>>

\* col.rollback()
Rollback ==
    /\ col.inTrx
    /\ col' = rollback(Enter)
    /\ op' = Call("rollback", 0, None, NoInt, TRUE)
    /\ ret' = NoInt
    /\ err' = ""
    /\ marks' = marks
    /\ UNCHANGED <<now, answers>>

\* col.clearUndo()
ClearUndo ==
    /\ col' = clearUndo(Enter)
    /\ op' = Call("clearUndo", 0, None, NoInt, TRUE)
    /\ ret' = NoInt
    /\ err' = ""
    /\ marks' = <<>>
    /\ UNCHANGED <<now, answers>>

\* col.setUserFlag(flag, cids)
SetUserFlagWith(flags, cidss) ==
    \E flag \in flags, cids \in cidss :
        /\ col.inTrx
        /\ col' = setUserFlag(Enter, flag, cids)
        /\ op' = [name |-> "setUserFlag", flag |-> flag, cids |-> cids]
        /\ ret' = NoInt
        /\ err' = col'.calls.raised
        /\ UNCHANGED <<now, answers, marks>>

\* col.set_config("schedVer", val)
SetConfigWith(vals) ==
    \E val \in vals :
        /\ col.inTrx
        /\ col' = set_config(Enter, val)
        /\ op' = [name |-> "set_config", val |-> val]
        /\ ret' = NoInt
        /\ err' = ""
        /\ UNCHANGED <<now, answers, marks>>

\* col.remove_config("schedVer")
RemoveConfig ==
    /\ col.inTrx
    /\ col' = remove_config(Enter)
    /\ op' = [name |-> "remove_config"]
    /\ ret' = NoInt
    /\ err' = ""
    /\ UNCHANGED <<now, answers, marks>>

\* ------------------------------------------------------- specifications
\* The transaction guard: every form of save, the clock, the backend and
\* the schema gate, with one card under review (it may become a leech).
Save == SaveWith(Names, Mods, BOOLEAN)

MarkReviewOne == MarkReviewOf({1})

SetUserFlag == SetUserFlagWith({1}, {<<1>>})

\* a flag in range and one out of range
SetAnyUserFlag == SetUserFlagWith({1, 8}, {<<1>>})

AnswerOne == AnswerWith({1}, BOOLEAN, {FALSE})

Next ==
    \/ Tick
    \/ Save
    \/ Begin
    \/ Autosave
    \/ ModSchema
    \/ BackendWrite
    \/ MarkReviewOne
    \/ AnswerOne
    \/ Undo
    \/ ClearUndo
    \/ SetUserFlag

Spec == Init /\ [][Next]_vars

\* The checkpoint log: reviews of every card, with leeches and buried
\* siblings, and saves that keep the transaction open.
SaveKeep == SaveWith(Names, {NoInt}, {TRUE})

MarkReview == MarkReviewOf(Cards)

Answer == AnswerWith(Cards, BOOLEAN, BOOLEAN)

NextReview ==
    \/ SaveKeep
    \/ MarkReview
    \/ Answer
    \/ Undo
    \/ ClearUndo

SpecReview == Init /\ [][NextReview]_vars

\* The scheduler version: changes of version to every target, granted,
\* denied and failing, over each kind of undo record, with rollbacks.
Versions == {0, 1, 2, 3}

ChangeSchedulerVer == ChangeSchedulerVerWith(Versions, BOOLEAN, BOOLEAN)

SetConfig == SetConfigWith(Versions)

SaveEdit == SaveWith({"Edit"}, {NoInt}, {TRUE})

NextSched ==
    \/ Tick
    \/ ChangeSchedulerVer
    \/ SaveEdit
    \/ MarkReviewOne
    \/ Rollback
    \/ ClearUndo
    \/ SetConfig
    \/ RemoveConfig

SpecSched == Init /\ [][NextSched]_vars

\* The schema gate: modSchema before and after a sync, at either time.
NextSchema ==
    \/ Tick
    \/ ModSchema
    \/ SetLs
    \/ SaveEdit
    \/ MarkReviewOne
    \/ BackendWrite
    \/ Rollback
    \/ ClearUndo

SpecSchema == Init /\ [][NextSchema]_vars

\* The deletion log: deletions of one or two objects (the same one twice
\* included) on a client and on a server, at different stored usn.
InitEither ==
    /\ \E server \in BOOLEAN : col = NewCollection(server)
    /\ now = 0
    /\ answers = 0
    /\ marks = <<>>
    /\ op = Call("init", 0, None, NoInt, TRUE)
    /\ ret = NoInt
    /\ err = ""

\* the ids lists: none, one or two ids
IdLists == {<<>>} \cup {<<a>> : a \in {1, 2}}
                 \cup {<<a, b>> : a \in {1, 2}, b \in {1, 2}}

\* REM_CARD, REM_NOTE
RemTypes == {0, 1}

Usns == {0, 5}

LogRem == LogRemWith(IdLists, RemTypes)

SetUsn == SetUsnWith(Usns)

NextGraves ==
    \/ LogRem
    \/ SetUsn
    \/ SaveEdit

SpecGraves == InitEither /\ [][NextGraves]_vars

\* Autosave: the clock moves by 150 or 151 seconds, so that a save is
\* followed by an autosave 300 seconds and 301 seconds later; saves that
\* commit and saves that have nothing to commit.
Elapse == ElapseWith({150, 151})

SaveAny == SaveWith({None, "Edit"}, {NoInt}, BOOLEAN)

NextClock ==
    \/ Elapse
    \/ Autosave
    \/ SaveAny
    \/ Begin
    \/ BackendWrite
    \/ MarkReviewOne
    \/ ClearUndo
    \/ SetAnyUserFlag

SpecClock == Init /\ [][NextClock]_vars

\* The review log: a collection opened with reviews already logged, then
\* reviews of every card (marked, and answered or not) and their undo.
Histories == UNION {[1..n -> Cards] : n \in 0..MaxHistory}

InitHistory ==
    /\ \E h \in Histories :
          col = [NewCollection(FALSE) EXCEPT !.cur.revlog = h,
                                             !.disk.revlog = h]
    /\ now = 0
    /\ answers = 0
    /\ marks = <<>>
    /\ op = Call("init", 0, None, NoInt, TRUE)
    /\ ret = NoInt
    /\ err = ""

AnswerPlain == AnswerWith(Cards, {FALSE}, {FALSE})

NextRevlog ==
    \/ MarkReview
    \/ AnswerPlain
    \/ Undo
    \/ ClearUndo

SpecRevlog == InitHistory /\ [][NextRevlog]_vars

\* Buried siblings: a collection opened with some cards already buried,
\* then reviews that may bury the siblings of the card, and their undo.
OpenedCards ==
    [Cards -> {[type |-> 0, queue |-> 0],
               [type |-> 0, queue |-> QUEUE_TYPE_SIBLING_BURIED]}]

InitBuried ==
    /\ \E rows \in OpenedCards :
          col = [NewCollection(FALSE) EXCEPT !.cur.cards = rows,
                                             !.disk.cards = rows]
    /\ now = 0
    /\ answers = 0
    /\ marks = <<>>
    /\ op = Call("init", 0, None, NoInt, TRUE)
    /\ ret = NoInt
    /\ err = ""

MarkReviewNoted == MarkReviewNoting(Cards, Cards)

AnswerBury == AnswerWith(Cards, {FALSE}, BOOLEAN)

NextBury ==
    \/ MarkReviewNoted
    \/ AnswerBury
    \/ Undo
    \/ ClearUndo

SpecBury == InitBuried /\ [][NextBury]_vars

\* Maintenance: fixIntegrity and optimize with every outcome of the check,
\* of vacuum and of the begin that follows, on clean and dirty storage.
NextMaint ==
    \/ Tick
    \/ FixIntegrity
    \/ Optimize
    \/ Begin
    \/ BackendWrite
    \/ SaveEdit
    \/ MarkReviewOne
    \/ ClearUndo
    \/ SetAnyUserFlag

SpecMaint == Init /\ [][NextMaint]_vars

\* Checkpoints under every operation that saves: save with and without a
\* label, autosave, the schema gate, the change of scheduler version,
\* optimize and fixIntegrity, between reviews, backend writes and undo.
SaveEither == SaveWith({None, "Edit"}, {NoInt}, {TRUE})

ChangeToSupported == ChangeSchedulerVerWith({1, 2}, BOOLEAN, BOOLEAN)

NextCheckpoint ==
    \/ Tick
    \/ SaveEither
    \/ Autosave
    \/ MarkReviewOne
    \/ Undo
    \/ ModSchema
    \/ ChangeToSupported
    \/ Optimize
    \/ FixIntegrity
    \/ Begin
    \/ BackendWrite
    \/ ClearUndo
    \/ SetAnyUserFlag

SpecCheckpoint == Init /\ [][NextCheckpoint]_vars

\* The life of a collection: closed (saving or not, or for a full sync,
\* or before an upload) and opened again, between saves, rollbacks, undo
\* and maintenance.
NextLife ==
    \/ Tick
    \/ Reopen
    \/ Close
    \/ CloseForFullSync
    \/ BeforeUpload
    \/ SaveEither
    \/ Rollback
    \/ Undo
    \/ MarkReviewOne
    \/ BackendWrite
    \/ Optimize
    \/ FixIntegrity
    \/ ClearUndo
    \/ SetAnyUserFlag
    \/ Begin

SpecLife == Init /\ [][NextLife]_vars

\* --------------------------------------------------------------- helpers
Last(seq) == seq[Len(seq)]

Front(seq) == SubSeq(seq, 1, Len(seq) - 1)

Row(snap) == [type |-> snap.type, queue |-> snap.queue]

\* seq without its element at index i
Without(seq, i) == SubSeq(seq, 1, i - 1) \o SubSeq(seq, i + 1, Len(seq))

\* the fields of the collection other than the per-call probes
Core(s) == [s EXCEPT !.calls = NoCalls, !.flushed = NoCard]

\* ---------------------------------------------------------------- claims
\* C1: after markReview(c1), ..., markReview(cn) with no labelled save in
\* between, each undo() returns the id of the most recent mark not yet
\* undone (cn first, c1 last), writes back the snapshot taken for it, and
\* once the last of them is undone undoName() is None.
C1_LifoUndo ==
    [][ (op'.name = "undo" /\ marks /= <<>>) =>
            LET m == Last(marks).snap IN
            /\ err' = ""
            /\ ret' = m.id
            /\ col'.flushed = m
            /\ (m.queue /= QUEUE_TYPE_SIBLING_BURIED
                    => col'.cur.cards[m.id] = Row(m))
            /\ (Len(marks) = 1 => undoName(col') = None)
            /\ (Len(marks) > 1 => undoName(col') = "Review") ]_vars

\* two cards were marked, 3 then 1, and the first undo has returned card 1
C1_Witness ==
    /\ op.name = "undo"
    /\ ret = 1
    /\ Len(marks) = 1
    /\ marks[1].snap.id = 3
    /\ col.flushed.id = 1

\* C2: save() commits exactly once when the storage is dirty (db.mod set,
\* or col.mod differs from the value recorded at begin) and not at all
\* otherwise, whatever its arguments; when dirty, db.mod is False afterwards
\* and col.mod holds the mod argument if given, else the current time.
C2_CommitIffDirty ==
    [][ op'.name = "save" =>
            LET dirty == col.dbmod \/ col.last_begin_at /= col.cur.mod IN
            /\ col'.calls.commit = IF dirty THEN 1 ELSE 0
            /\ dirty =>
                  /\ ~col'.dbmod
                  /\ col'.cur.mod = IF op'.mod = NoInt THEN now * 1000
                                    ELSE op'.mod
                  /\ col'.disk.mod = col'.cur.mod ]_vars

\* a save given mod=0 at a later time committed, and col.mod is 0
C2_Witness ==
    /\ op.name = "save"
    /\ op.mod = 0
    /\ now > 0
    /\ col.calls.commit = 1
    /\ col.cur.mod = 0
    /\ ~col.dbmod

\* C3: called inside a transaction, save(trx=True) returns inside one (a
\* new one after a commit, the same one when nothing was dirty) and
\* save(trx=False) returns outside (committed and not begun again when
\* dirty, rolled back when not).
C3_TrxAfterSave ==
    op.name = "save" =>
        /\ col.inTrx = op.trx
        /\ col.calls.commit \in {0, 1}
        /\ col.calls.begin = IF op.trx /\ col.calls.commit = 1 THEN 1 ELSE 0
        /\ col.calls.rollback =
              IF ~op.trx /\ col.calls.commit = 0 THEN 1 ELSE 0

\* a save(trx=False) with nothing to commit has rolled back
C3_Witness ==
    /\ op.name = "save"
    /\ ~op.trx
    /\ col.calls.rollback = 1
    /\ ~col.inTrx

\* the calls that save without a label: save(None), an autosave that
\* triggered, a modSchema that was not aborted
UnlabelledSave(o, r, e) ==
    \/ o.name = "save" /\ o.label = None
    \/ o.name = "autosave" /\ r = 1
    \/ o.name = "modSchema" /\ e = ""

\* C4: a save without a label empties the undo record if and only if it is
\* a checkpoint; a review record (entries, order, wasLeech) and an empty
\* record are left as they were.
C4_UnlabelledSaveKeepsReviews ==
    [][ UnlabelledSave(op', ret', err') =>
            col'.undo = IF col.undo.tag = 2 THEN NoUndo ELSE col.undo ]_vars

\* an autosave has saved and the two stacked reviews are still there
C4_Witness ==
    /\ op.name = "autosave"
    /\ ret = 1
    /\ col.calls.commit = 1
    /\ col.undo.tag = 1
    /\ Len(col.undo.cards) = 2

\* C5 as stated: save(name) with a name given (not None) leaves the undo
\* record a checkpoint of that name, and undoName() returns it.
C5_AnyLabelMakesCheckpoint ==
    (op.name = "save" /\ op.label /= None) =>
        /\ col.undo = [tag |-> 2, name |-> op.label,
                       cards |-> <<>>, wasLeech |-> FALSE]
        /\ undoName(col) = op.label

\* C5 amended: save(name) with a non-empty name leaves the undo record a
\* checkpoint of that name whatever it was before and whether or not the
\* save committed, and undoName() returns the name.
C5_LabelMakesCheckpoint ==
    (op.name = "save" /\ op.label \notin {None, ""}) =>
        /\ col.undo = [tag |-> 2, name |-> op.label,
                       cards |-> <<>>, wasLeech |-> FALSE]
        /\ undoName(col) = op.label

\* a save("Edit") that had nothing to commit has recorded the checkpoint
C5_Witness ==
    /\ op.name = "save"
    /\ op.label = "Edit"
    /\ col.calls.commit = 0
    /\ col.undo.tag = 2
    /\ undoName(col) = "Edit"

\* C6: markReview(card) on an empty record or a checkpoint leaves a review
\* record with exactly the snapshot of that card and wasLeech equal to
\* whether the card's note has the leech tag now; a following undo() undoes
\* the review and rolls nothing back.
C6_FreshReviewRecord ==
    [][ /\ (op'.name = "markReview" /\ col.undo.tag /= 1) =>
              col'.undo = [tag |-> 1, name |-> "Review",
                           cards |-> <<Snapshot(col, op'.card)>>,
                           wasLeech |-> col.cur.leech[nid(op'.card)]]
        /\ (op'.name = "undo" /\ op.name = "markReview") =>
              /\ ret' = op.card
              /\ col'.calls.rollback = 0
              /\ col'.disk = col.disk ]_vars

\* card 3 was marked over a checkpoint while its note was a leech
C6_Witness ==
    /\ op.name = "markReview"
    /\ op.card = 3
    /\ Len(marks) = 1
    /\ marks[1].snap = Snapshot(col, 3)
    /\ marks[1].hadLeech
    /\ col.undo.tag = 1
    /\ Len(col.undo.cards) = 1
    /\ col.undo.wasLeech

\* C7 as stated: markReview(card) on a review record appends the snapshot,
\* keeps the earlier entries in order and leaves wasLeech as it was.
C7_AppendKeepsWasLeech ==
    [][ (op'.name = "markReview" /\ col.undo.tag = 1) =>
            /\ col'.undo.cards =
                  Append(col.undo.cards, Snapshot(col, op'.card))
            /\ col'.undo.wasLeech = col.undo.wasLeech ]_vars

\* C7 amended: markReview(card) on a review record appends the snapshot,
\* keeps the earlier entries in order, and sets wasLeech to whether the
\* newly reviewed card's note has the leech tag now.
C7_AppendResetsWasLeech ==
    [][ (op'.name = "markReview" /\ col.undo.tag = 1) =>
            /\ col'.undo.tag = 1
            /\ col'.undo.cards =
                  Append(col.undo.cards, Snapshot(col, op'.card))
            /\ col'.undo.wasLeech = col.cur.leech[nid(op'.card)] ]_vars

\* a second review was stacked on a first whose note had no leech tag,
\* and the record's flag is now that of the second card's note
C7_Witness ==
    /\ op.name = "markReview"
    /\ Len(col.undo.cards) = 2
    /\ Len(marks) = 2
    /\ ~marks[1].hadLeech
    /\ marks[2].hadLeech
    /\ col.undo.wasLeech

\* C8: undoing a review removes the leech tag when the note did not have it
\* before that review and has it now, and leaves the tag alone when the
\* note already had it before that review.
C8_LeechTagRestored ==
    [][ (op'.name = "undo" /\ marks /= <<>>) =>
            LET m == Last(marks)
                n == m.snap.nid
            IN  col'.cur.leech[n] = (m.hadLeech /\ col.cur.leech[n]) ]_vars

\* C9: undo() on a checkpoint rolls the open transaction back, so storage
\* is as last committed, begins a new transaction, empties the undo record
\* and returns None.
C9_CheckpointUndoRollsBack ==
    [][ (op'.name = "undo" /\ col.undo.tag = 2) =>
            /\ col'.cur = col.disk
            /\ col'.disk = col.disk
            /\ col'.inTrx
            /\ col'.last_begin_at = col.disk.mod
            /\ col'.calls = [NoCalls EXCEPT !.rollback = 1, !.begin = 1]
            /\ col'.flushed = NoCard
            /\ col'.undo = NoUndo
            /\ col'.reps = col.reps
            /\ ret' = NoInt
            /\ err' = "" ]_vars

\* a checkpoint undo has run after the scheduler answered card 1, and the
\* card is back at its committed row
C9_Witness ==
    /\ op.name = "undo"
    /\ col.calls.rollback = 1
    /\ answers = 1
    /\ col.cur.cards[1] = [type |-> 0, queue |-> 0]
    /\ col.cur = col.disk
    /\ col.undo = NoUndo

\* C10: undo() on an empty record raises and changes nothing (no rollback,
\* no write, sched.reps and the record as they were), and undoName() is
\* None exactly in the states where undo() raises.
C10_UndoOnEmptyFails ==
    /\ [](undoName(col) = None <=> undoRaises(col))
    /\ [][ (op'.name = "undo" /\ col.undo.tag = 0) =>
              /\ err' = "TypeError"
              /\ ret' = NoInt
              /\ Core(col') = Core(col)
              /\ col'.calls = NoCalls
              /\ col'.flushed = NoCard ]_vars

\* undo() has raised with uncommitted changes pending, and they are intact
C10_Witness ==
    /\ op.name = "undo"
    /\ err = "TypeError"
    /\ col.undo = NoUndo
    /\ col.dbmod
    /\ col.cur /= col.disk

\* C11: changeSchedulerVer(ver) with ver equal to the persisted version
\* returns having done nothing: the hook is not consulted, scm and every
\* other row are as before, nothing is committed, no migration routine is
\* invoked, the loaded scheduler and the undo record are as they were; the
\* call returns normally whenever that version is one the program supports
\* (a version written into the configuration from outside (1, 2) makes
\* every call raise, still without any effect).
C11_SameVersionNoOp ==
    [][ (op'.name = "changeSchedulerVer" /\ op'.ver = col.cur.schedVer) =>
            /\ supported(col.cur.schedVer) => err' = ""
            /\ col'.calls.hook = 0
            /\ col'.calls.commit = 0
            /\ col'.calls.moves = <<>>
            /\ col'.cur = col.cur
            /\ col'.disk = col.disk
            /\ col'.sched = col.sched
            /\ col'.undo = col.undo
            /\ Core(col') = Core(col)
            /\ col'.calls = [NoCalls EXCEPT !.raised = err'] ]_vars

\* changeSchedulerVer(2) has returned on a collection already at version 2
\* whose checkpoint "Edit" is still pending
C11_Witness ==
    /\ op.name = "changeSchedulerVer"
    /\ op.ver = 2
    /\ err = ""
    /\ col.cur.schedVer = 2
    /\ col.sched = 2
    /\ col.undo.tag = 2
    /\ col.calls = NoCalls

\* C12: changeSchedulerVer(ver) with ver outside (1, 2) raises "Unsupported
\* scheduler version" and leaves the persisted version, scm, the undo
\* record and the loaded scheduler as they were, consulting neither the
\* hook nor a migration routine; so from a persisted version in (1, 2) no
\* call of changeSchedulerVer persists a version outside (1, 2), in the
\* open transaction or as committed.
C12_UnsupportedTargetFails ==
    /\ [][ (/\ op'.name = "changeSchedulerVer"
            /\ col.cur.schedVer \in {1, 2}
            /\ col.disk.schedVer \in {1, 2}) =>
              /\ col'.cur.schedVer \in {1, 2}
              /\ col'.disk.schedVer \in {1, 2} ]_vars
    /\ [][ (op'.name = "changeSchedulerVer" /\ op'.ver \notin {1, 2}) =>
              /\ err' = "Unsupported scheduler version"
              /\ col'.cur = col.cur
              /\ col'.disk = col.disk
              /\ col'.undo = col.undo
              /\ col'.sched = col.sched
              /\ col'.calls.hook = 0
              /\ col'.calls.moves = <<>>
              /\ col'.calls.commit = 0 ]_vars

\* changeSchedulerVer(3) has raised on a collection at version 2 with a
\* review pending
C12_Witness ==
    /\ op.name = "changeSchedulerVer"
    /\ op.ver = 3
    /\ err = "Unsupported scheduler version"
    /\ col.cur.schedVer = 2
    /\ col.sched = 2
    /\ col.undo.tag = 1

\* C13: at version 1 with the schema not changed since the last sync
\* (scm <= ls), changeSchedulerVer(2) with the hook answering yes and a
\* migration that succeeds returns with scm at the current time, the
\* persisted version 2, the V2 scheduler loaded, the undo record empty, and
\* exactly one migration routine invoked, moveToV2.
C13_UpgradeGranted ==
    [][ ( /\ op'.name = "changeSchedulerVer"
          /\ op'.ver = 2
          /\ op'.proceed
          /\ ~op'.fails
          /\ col.cur.schedVer = 1
          /\ col.cur.scm <= col.cur.ls ) =>
            /\ err' = ""
            /\ col'.calls.hook = 1
            /\ col'.cur.scm = now * 1000
            /\ col'.cur.schedVer = 2
            /\ col'.sched = 2
            /\ col'.undo = NoUndo
            /\ Len(col'.calls.moves) = 1
            /\ col'.calls.moves[1].to = 2
            /\ col'.calls.moves[1].schedVer = 1
            /\ col'.cur.shape = 2 ]_vars

\* after the clock moved, changeSchedulerVer(2) has asked the hook once
\* and returned with the schema stamped now and the V2 scheduler loaded
C13_Witness ==
    /\ op.name = "changeSchedulerVer"
    /\ op.ver = 2
    /\ err = ""
    /\ now > 0
    /\ col.calls.hook = 1
    /\ col.cur.scm = now * 1000
    /\ col.cur.scm > col.cur.ls
    /\ col.cur.schedVer = 2
    /\ col.sched = 2
    /\ col.undo = NoUndo
    /\ Len(col.calls.moves) = 1
    /\ col.calls.moves[1].to = 2

\* C14: at version 1 with the schema not changed since the last sync,
\* changeSchedulerVer(2) with the hook answering no raises "abortSchemaMod"
\* having asked the hook once and done nothing else: the persisted version
\* and the loaded scheduler are still 1, scm and every other row are as
\* before, nothing was written or committed, no migration routine was
\* invoked and the undo record is as it was.
C14_UpgradeDenied ==
    [][ ( /\ op'.name = "changeSchedulerVer"
          /\ op'.ver = 2
          /\ ~op'.proceed
          /\ col.cur.schedVer = 1
          /\ col.cur.scm <= col.cur.ls ) =>
            /\ err' = "abortSchemaMod"
            /\ col'.cur.schedVer = 1
            /\ col'.sched = col.sched
            /\ col'.cur = col.cur
            /\ col'.disk = col.disk
            /\ col'.dbmod = col.dbmod
            /\ col'.undo = col.undo
            /\ Core(col') = Core(col)
            /\ col'.calls = [NoCalls EXCEPT !.hook = 1,
                                            !.raised = "abortSchemaMod"] ]_vars

\* changeSchedulerVer(2) was refused by the hook and the checkpoint "Edit"
\* is still pending on a collection at version 1
C14_Witness ==
    /\ op.name = "changeSchedulerVer"
    /\ op.ver = 2
    /\ ~op.proceed
    /\ err = "abortSchemaMod"
    /\ col.calls.hook = 1
    /\ col.cur.schedVer = 1
    /\ col.sched = 1
    /\ col.undo.tag = 2
    /\ now > 0
    /\ col.cur.scm = 0

\* C15: changeSchedulerVer(ver) to the other supported version is never
\* partial in committed storage: when it returns, the new version, the
\* migrated card rows and the scm stamp are all committed, and when it
\* raises (the hook answered no, or the migration routine failed) the
\* committed storage is as it was before the call.
C15_NeverPartial ==
    [][ ( /\ op'.name = "changeSchedulerVer"
          /\ op'.ver \in {1, 2}
          /\ op'.ver /= col.cur.schedVer ) =>
            IF err' = ""
            THEN /\ col'.disk.schedVer = op'.ver
                 /\ col'.disk.shape = op'.ver
                 /\ col'.disk.scm = col'.cur.scm
            ELSE col'.disk = col.disk ]_vars

\* C16: modSchema(check) consults the hook exactly when check is true and
\* the schema has not changed since the last sync (scm <= ls); when the
\* schema has changed, or check is false, it asks nothing and does not
\* raise; whenever it does not raise it has set scm to the current time
\* and saved (the stamp is committed and the time of the last save is
\* now), and when it raises it has changed nothing.
C16_GateIffCheckedAndUnchanged ==
    [][ op'.name = "modSchema" =>
            LET check == op'.trx
                asked == check /\ col.cur.scm <= col.cur.ls
            IN  /\ col'.calls.hook = IF asked THEN 1 ELSE 0
                /\ err' \in {"", "abortSchemaMod"}
                /\ ~asked => err' = ""
                /\ err' = "" =>
                      /\ col'.cur.scm = now * 1000
                      /\ col'.disk.scm = now * 1000
                      /\ col'.calls.commit = 1
                      /\ col'.lastSave = now
                      /\ ~col'.dbmod
                /\ err' /= "" => Core(col') = Core(col) ]_vars

\* modSchema(check=True) on a schema already changed since the last sync
\* has stamped and saved without consulting the hook
C16_Witness ==
    /\ op.name = "modSchema"
    /\ op.trx
    /\ err = ""
    /\ col.calls.hook = 0
    /\ col.calls.commit = 1
    /\ now > 0
    /\ col.cur.scm = now * 1000
    /\ col.disk.scm = now * 1000
    /\ col.cur.scm > col.cur.ls

\* C17: _logRem(ids, type) appends to the deletion log one tombstone
\* (usn, id, type) for each element of ids, in order, and leaves the
\* tombstones already there as they were; the usn written is the stored
\* usn on a server and -1 on a client, whatever the stored usn.
C17_OneTombstonePerId ==
    [][ op'.name = "logRem" =>
            LET old == col.cur.graves
                new == col'.cur.graves
                ids == op'.ids
                u == IF col.server THEN col.cur.usn ELSE -1
            IN  /\ Len(new) = Len(old) + Len(ids)
                /\ SubSeq(new, 1, Len(old)) = old
                /\ \A i \in 1..Len(ids) :
                      new[Len(old) + i] =
                          [usn |-> u, oid |-> ids[i], type |-> op'.type] ]_vars

\* on a client whose stored usn is 5, the ids 1 and 2 were logged after an
\* earlier deletion, and they carry -1
C17_Witness ==
    /\ op.name = "logRem"
    /\ op.ids = <<1, 2>>
    /\ ~col.server
    /\ col.cur.usn = 5
    /\ Len(col.cur.graves) = 3
    /\ col.cur.graves[2] = [usn |-> -1, oid |-> 1, type |-> op.type]
    /\ col.cur.graves[3] = [usn |-> -1, oid |-> 2, type |-> op.type]

\* C18: autosave() saves and returns True exactly when more than 300
\* seconds have passed since the last save, and otherwise does nothing and
\* returns None; a save, whether or not it commits, sets the time of the
\* last save to now, so an autosave that follows a save or a triggered
\* autosave with no time in between does not trigger.
C18_AutosaveAfter300 ==
    [][ /\ op'.name = "autosave" =>
              LET due == now - col.lastSave > 300
                  dirty == col.dbmod \/ col.last_begin_at /= col.cur.mod
              IN  /\ ret' = IF due THEN 1 ELSE NoInt
                  /\ due =>
                        /\ col'.lastSave = now
                        /\ col'.calls.commit = IF dirty THEN 1 ELSE 0
                        /\ col'.undo = IF col.undo.tag = 2 THEN NoUndo
                                       ELSE col.undo
                  /\ ~due =>
                        /\ Core(col') = Core(col)
                        /\ col'.calls = NoCalls
        /\ op'.name = "save" => col'.lastSave = now
        /\ ( /\ op'.name = "autosave"
             /\ \/ op.name = "save"
                \/ op.name = "autosave" /\ ret = 1 ) => ret' = NoInt ]_vars

\* an autosave exactly 300 seconds after the last save did not trigger,
\* although there are changes to commit
C18_Witness ==
    /\ op.name = "autosave"
    /\ ret = NoInt
    /\ col.lastSave > 0
    /\ now - col.lastSave = 300
    /\ col.last_begin_at /= col.cur.mod
    /\ col.calls.commit = 0

\* C19: in a changeSchedulerVer that gets as far as the migration, the
\* migration routine of the target version is invoked once, and it finds
\* the hook already consulted (when it had to be), scm stamped with the
\* current time and committed by the one save of the call, the undo record
\* empty, and the old version still persisted and loaded; nothing is
\* committed after it, and when the call returns the new version is
\* persisted, its scheduler is loaded and the undo record is empty.
C19_StampSaveClearMigrateReload ==
    [][ (op'.name = "changeSchedulerVer" /\ col'.calls.moves /= <<>>) =>
            LET m == col'.calls.moves[1] IN
            /\ Len(col'.calls.moves) = 1
            /\ m.to = op'.ver
            /\ m.hook = IF col.cur.scm <= col.cur.ls THEN 1 ELSE 0
            /\ m.hook = col'.calls.hook
            /\ m.scm = now * 1000
            /\ m.saved
            /\ m.commit = 1
            /\ m.undo = 0
            /\ m.schedVer = col.cur.schedVer
            /\ m.sched = col.sched
            /\ col'.calls.commit = 1
            /\ col'.undo = NoUndo
            /\ err' = "" =>
                  /\ col'.cur.schedVer = op'.ver
                  /\ col'.sched = op'.ver ]_vars

\* a change back to version 1 has returned: moveToV1 ran on a schema
\* already changed (no question asked), stamped again and saved, with
\* version 2 still persisted and loaded at that time
C19_Witness ==
    /\ op.name = "changeSchedulerVer"
    /\ op.ver = 1
    /\ err = ""
    /\ now > 0
    /\ Len(col.calls.moves) = 1
    /\ col.calls.moves[1].to = 1
    /\ col.calls.moves[1].hook = 0
    /\ col.calls.moves[1].saved
    /\ col.calls.moves[1].scm = now * 1000
    /\ col.calls.moves[1].undo = 0
    /\ col.calls.moves[1].sched = 2
    /\ col.sched = 1
    /\ col.undo = NoUndo

\* C20 as stated: undo() of a review of a card that is not a preview card
\* (filtered deck, not rescheduling) deletes exactly one row of the review
\* log, the last one written for the card it restores; for a preview card
\* it deletes none; the rows of other cards are never deleted.
C20_DeletesExactlyOne ==
    [][ (op'.name = "undo" /\ col.undo.tag = 1) =>
            LET c == ret'
                old == col.cur.revlog
                new == col'.cur.revlog
            IN  IF previewing(c) THEN new = old
                ELSE \E i \in 1..Len(old) :
                        /\ old[i] = c
                        /\ \A j \in (i + 1)..Len(old) : old[j] /= c
                        /\ new = Without(old, i) ]_vars

\* C20 amended: undo() of a review of a card that is not a preview card
\* deletes the last row of the review log written for the card it
\* restores, and only that row, if the log has a row for that card; it
\* deletes nothing if the log has none, or if the card is a preview card;
\* the rows of other cards are never deleted.
C20_DeletesLastIfAny ==
    [][ (op'.name = "undo" /\ col.undo.tag = 1) =>
            LET c == ret'
                old == col.cur.revlog
                new == col'.cur.revlog
            IN  IF previewing(c) \/ (\A i \in 1..Len(old) : old[i] /= c)
                THEN new = old
                ELSE \E i \in 1..Len(old) :
                        /\ old[i] = c
                        /\ \A j \in (i + 1)..Len(old) : old[j] /= c
                        /\ new = Without(old, i) ]_vars

\* the review of card 1 was undone in a collection whose log had rows of
\* card 1, of card 3 and of card 1 again: the first two are left
C20_Witness ==
    /\ op.name = "undo"
    /\ ret = 1
    /\ answers = 1
    /\ col.cur.revlog = <<1, 3>>
    /\ col.disk.revlog = <<1, 3>>
    /\ col.dbmod

\* C21: undo() of a review of card c puts back in the queue of their type
\* the cards of c's note that were buried during the review being undone
\* (not buried when the review was marked, buried now), and every other
\* card keeps its queue: the cards of other notes, and the cards of c's
\* note that were buried before the review or are in any other queue.
C21_OnlySiblingsBuriedInReview ==
    [][ (op'.name = "undo" /\ marks /= <<>>) =>
            LET m == Last(marks)
                c == m.snap.id
            IN  \A d \in Cards \ {c} :
                   LET old == col.cur.cards[d]
                       buriedInReview ==
                           /\ nid(d) = nid(c)
                           /\ m.queues[d] /= QUEUE_TYPE_SIBLING_BURIED
                           /\ old.queue = QUEUE_TYPE_SIBLING_BURIED
                   IN  col'.cur.cards[d] =
                          IF buriedInReview
                          THEN [old EXCEPT !.queue = old.type]
                          ELSE old ]_vars

\* C22: fixIntegrity and optimize end the transaction first (save with
\* trx=False commits or rolls back, once), and afterwards always attempt one
\* begin, whether the check (or the vacuum) succeeded or raised; when that
\* begin succeeds a transaction is open on return, and when it fails the
\* failure is swallowed and the caller gets the outcome of the check
\* itself: the report with ok False, or the error the check raised.
C22_BeginAlwaysAttempted ==
    [][ op'.name \in {"fixIntegrity", "optimize"} =>
            /\ col'.calls.commit + col'.calls.rollback = 1
            /\ col'.calls.begin + col'.calls.beginFailed = 1
            /\ col'.inTrx = ~op'.beginFails
            /\ op'.name = "fixIntegrity" =>
                  /\ err' = IF op'.outcome = "Exception" THEN "Exception"
                            ELSE ""
                  /\ ret' = IF op'.outcome = "Exception" THEN NoInt
                            ELSE IF op'.outcome = "clean" THEN 1 ELSE 0
                  /\ op'.outcome = "DBError" => col'.calls.report = "DBError"
            /\ op'.name = "optimize" =>
                  err' = IF op'.fails THEN "DBError" ELSE "" ]_vars

\* C23: a checkpoint is never left pending across a commit: a call that
\* commits returns with a checkpoint only if it is the labelled save that
\* recorded it, the committed storage changes by commits only, and a call
\* that finds a checkpoint and leaves it changes nothing committed; when a
\* labelled save returns, everything done before it is committed, so the
\* undo of the checkpoint (a rollback) reverts what was done after the
\* labelled save and nothing done before it.
C23_NoCommitUnderCheckpoint ==
    [][ LET labelled == op'.name = "save" /\ op'.label \notin {None, ""}
        IN  /\ (col'.calls.commit > 0 /\ col'.undo.tag = 2) =>
                  labelled /\ col'.undo.name = op'.label
            /\ col'.disk /= col.disk => col'.calls.commit > 0
            /\ (col.undo.tag = 2 /\ col'.undo.tag = 2 /\ ~labelled) =>
                  /\ col'.undo = col.undo
                  /\ col'.calls.commit = 0
                  /\ col'.disk = col.disk
            /\ labelled => col'.cur = col'.disk
            /\ (op'.name = "undo" /\ col.undo.tag = 2) =>
                  col'.cur = col.disk ]_vars

\* the checkpoint "Edit" is pending over uncommitted changes written after
\* the save that recorded it had committed the changes before it
C23_Witness ==
    /\ col.undo.tag = 2
    /\ col.undo.name = "Edit"
    /\ op.name = "backend"
    /\ now > 0
    /\ col.cur.mod /= col.disk.mod
    /\ col.cur.schedVer = 2
    /\ col.disk.schedVer = 2

\* C24: between calls the scheduler loaded is the one of the version that
\* storage holds: self.sched is the V1 scheduler exactly when the persisted
\* schedVer is 1, and the V2 scheduler exactly when it is 2, also after a
\* rollback that follows a change of version.
C24_LoadedSchedulerMatchesStorage ==
    col.sched = col.cur.schedVer

\* C25: over any sequence of reopen, save, rollback, undo, optimize,
\* fixIntegrity, beforeUpload and close, every begin is issued while no
\* transaction is open and every commit and rollback while one is open.
C25_BeginCommitRollbackPaired ==
    col.calls.unpaired = 0

\* C26: an undo record is never available after the collection was closed
\* (close with or without save, close_for_full_sync) and opened again:
\* when reopen returns, undoName() is None.
C26_NoUndoAfterReopen ==
    op.name = "reopen" => undoName(col) = None
====
